---- MODULE Spec2Model ----
(***************************************************************************)
(* DatabaseModule (src/src/index.ts): a read-through / write-through cache *)
(* (the process-wide memory-cache singleton) in front of a Firestore       *)
(* document store.  The four public operations write (create), readOne,    *)
(* readMany and updateOne are modelled together with the cache they share, *)
(* the external store they call and the clock the cache's expiry reads.    *)
(***************************************************************************)
EXTENDS Integers, Sequences, FiniteSets, TLC

VARIABLES
    store,   \* the external document store: <<collection, id>> -> document | Absent
    cache,   \* memory-cache: key -> [value, expire]
    now,     \* Date.now()
    last,    \* the call that has just completed: its arguments, its outcome and
             \* the I/O it made (NoCall once time has passed)
    this,    \* the DatabaseModule instance the next call is made through
    calls,   \* the calls in flight when calls overlap: where each one stands
    running, \* the call whose code is on the JavaScript stack (0: the loop is idle)
    lastCacheOp  \* the latest operation made on the cache, and the call that made it

vars == <<store, cache, now, last, this, calls, running, lastCacheOp>>

(***************************************************************************)
(* Bounds and configuration.                                               *)
(***************************************************************************)
\* cache_max_age, the third argument of every cache.put (clock ticks).
cache_max_age == 1

\* cache_allocated_memory, in millionths of a megabyte: dividing it by
\* 0.000001 (line 240) gives this many bytes.
cache_allocated_memory == 80

\* The clock stops advancing here.
MaxTime == 2

\* The number of calls that may overlap.
MaxCalls == 2

\* Bytes that exportJson spends on one entry besides its key and its value:
\* the quotes, the colon, {"value": ,"expire": } and a 13-digit timestamp.
EntryOverhead == 38

(***************************************************************************)
(* JavaScript values as they reach the handlers: a type tag (typeof) and   *)
(* the text a template literal gives for the value.                        *)
(***************************************************************************)
Str(s) == [t |-> "string", v |-> s]
Num(s) == [t |-> "number", v |-> s]
Undefined == [t |-> "undefined", v |-> "undefined"]

TypeOf(x) == x.t
Template(x) == x.v

\* The numbers the model passes as limit.
NumValue(x) ==
    CASE x.v = "0" -> 0
      [] x.v = "1" -> 1
      [] x.v = "2" -> 2
      [] x.v = "-1" -> 0 - 1
      [] OTHER -> 0

\* `target.limit || 0`: undefined and 0 are falsy.
LimitOrZero(limit) ==
    IF limit = Undefined \/ (TypeOf(limit) = "number" /\ NumValue(limit) = 0)
    THEN "0"
    ELSE Template(limit)

(***************************************************************************)
(* Documents: DocumentObject restricted to two string fields.  A field     *)
(* the document does not have holds NoField.                               *)
(***************************************************************************)
NoField == "<none>"
FieldOrder == <<"status", "title">>
Fields == {FieldOrder[i] : i \in 1..Len(FieldOrder)}
FieldValues == {"a", "x"}
AllDocs == [Fields -> FieldValues \cup {NoField}]

Absent == [f \in Fields |-> "<absent>"]

D1 == [status |-> "a", title |-> "a"]
U1 == [status |-> NoField, title |-> "x"]
PayloadDocs == {D1, U1}

\* The document argument of write / updateOne: given or undefined.
Given(d) == [def |-> TRUE, doc |-> d]
NotGiven == [def |-> FALSE, doc |-> Absent]

Collections == {"t"}
IdOrder == <<"0">>
Ids == {IdOrder[i] : i \in 1..Len(IdOrder)}
DocRefs == Collections \X Ids

Target(collection, id, limit) == [collection |-> collection, id |-> id, limit |-> limit]

\* Descriptors with a string collection and a string id, and descriptors
\* that miss one of them or have it of another type.
ValidTargets == {Target(Str(r[1]), Str(r[2]), Undefined) : r \in DocRefs}
InvalidTargets ==
    {Target(Undefined, Str("0"), Undefined), Target(Str("t"), Undefined, Undefined),
     Target(Num("123"), Str("0"), Undefined), Target(Str("t"), Num("7"), Undefined)}
Targets == ValidTargets \cup InvalidTargets

\* Query descriptors: a collection and an optional limit.
LimitInputs == {Undefined, Num("1")}
ValidQueryTargets == {Target(Str(c), Undefined, l) : c \in Collections, l \in LimitInputs}
InvalidQueryTargets ==
    {Target(Undefined, Undefined, Undefined), Target(Num("123"), Undefined, Num("1")),
     Target(Str("t"), Undefined, Str("2"))}

\* The filter argument of readMany: undefined, or an object whose own keys
\* are iterated in insertion order.
FilterGiven(s) == [def |-> TRUE, entries |-> s]
NoFilter == [def |-> FALSE, entries |-> <<>>]
FilterInputs == {NoFilter, FilterGiven(<<<<"status", "a">>>>)}

(***************************************************************************)
(* JSON.stringify / JSON.parse on the values the handlers cache: one       *)
(* document (an object) or a sequence of documents (an array).             *)
(***************************************************************************)
Obj(d) == [k |-> "object", o |-> d, a |-> <<>>]
Arr(s) == [k |-> "array", o |-> Absent, a |-> s]
NoValue == [k |-> "undefined", o |-> Absent, a |-> <<>>]

RECURSIVE JoinComma(_)
JoinComma(parts) ==
    IF Len(parts) = 0 THEN ""
    ELSE IF Len(parts) = 1 THEN parts[1]
    ELSE parts[1] \o "," \o JoinComma(Tail(parts))

StringifyDoc(d) ==
    LET present == SelectSeq(FieldOrder, LAMBDA f : d[f] # NoField)
        member(f) == "\"" \o f \o "\":\"" \o d[f] \o "\""
    IN  "{" \o JoinComma([i \in 1..Len(present) |-> member(present[i])]) \o "}"

JSONstringify(j) ==
    IF j.k = "object" THEN StringifyDoc(j.o)
    ELSE "[" \o JoinComma([i \in 1..Len(j.a) |-> StringifyDoc(j.a[i])]) \o "]"

DocSeqs == UNION {[1..n -> AllDocs] : n \in 0..Cardinality(Ids)}
JSONValues == {Obj(d) : d \in AllDocs} \cup {Arr(s) : s \in DocSeqs}
JSONText == {JSONstringify(j) : j \in JSONValues}
ParseTable == [s \in JSONText |-> CHOOSE j \in JSONValues : JSONstringify(j) = s]

JSONparse(s) == ParseTable[s]

(***************************************************************************)
(* memory-cache: get, put, clear, exportJson.                              *)
(***************************************************************************)
EmptyCache == [k \in {} |-> [value |-> "", expire |-> 0]]

Null == "<null>"

\* What a lookup of key finds at time t.
Found(c, key, t) ==
    IF key \notin DOMAIN c THEN "absent"
    ELSE IF c[key].expire >= t THEN "hit"
    ELSE "expired"

\* cache.get(key): the value of an entry whose expire is not behind the
\* clock, else null.
CacheGet(c, key, t) ==
    IF key \in DOMAIN c /\ c[key].expire >= t THEN c[key].value ELSE Null

\* ... and the lookup that finds an expired entry deletes it.
CacheAfterGet(c, key, t) ==
    IF key \in DOMAIN c /\ ~(c[key].expire >= t)
    THEN [k \in DOMAIN c \ {key} |-> c[k]]
    ELSE c

\* A lookup that takes an empty array for nothing cached.
Truthy_EmptyArrayFalsy(v) == v # Null /\ v # "" /\ v # "[]"

\* `if (cached)`
Truthy(v) == v # Null /\ v # ""

\* cache.put(key, value, time): expire = time + Date.now().
CachePut(c, key, value, time, t) ==
    [k \in DOMAIN c \cup {key} |->
        IF k = key THEN [value |-> value, expire |-> time + t] ELSE c[k]]

\* put throws unless time is a positive number.
CachePutThrows(time) == time <= 0

RECURSIVE SumOver(_, _)
SumOver(S, c) ==
    IF S = {} THEN 0
    ELSE LET k == CHOOSE x \in S : TRUE
         IN  Len(k) + Len(c[k].value) + EntryOverhead + SumOver(S \ {k}, c)

\* Buffer.byteLength(cache.exportJson())
ExportJsonBytes(c) ==
    LET n == Cardinality(DOMAIN c)
    IN  2 + SumOver(DOMAIN c, c) + (IF n > 1 THEN n - 1 ELSE 0)

\* new DatabaseModule({cache_max_age, cache_allocated_memory}): the fields the
\* constructor sets.  memory-cache is not among them: `cache` is the one
\* object the module required, whichever instance runs.
Instance(id, max_age, allocated_memory) ==
    [id |-> id, cache_max_age |-> max_age, cache_allocated_memory |-> allocated_memory]

\* this.cache_allocated_memory / 0.000001
MaxBytes == this.cache_allocated_memory

(***************************************************************************)
(* addToCache(key, value)                                                  *)
(***************************************************************************)
\* A comparison that also clears a cache exactly as large as the budget.
Evicts_AtBudget(c) == MaxBytes <= ExportJsonBytes(c)

\* `if (maxBytes < size)`
Evicts(c) == MaxBytes < ExportJsonBytes(c)

\* An addToCache that calls put without the time argument: the entry never
\* expires.
AddToCache_NoExpiry(c, key, value, t) ==
    LET cleared == IF Evicts(c) THEN EmptyCache ELSE c
    IN  [k \in DOMAIN cleared \cup {key} |->
            IF k = key THEN [value |-> value, expire |-> t + cache_max_age + MaxTime + 1]
            ELSE cleared[k]]

\* An addToCache that puts first and clears afterwards.
AddToCache_PutThenClear(c, key, value, t) ==
    IF Evicts(c) THEN EmptyCache ELSE CachePut(c, key, value, cache_max_age, t)

\* An addToCache that measures and clears and never puts.
AddToCache_SkipsPut(c, key, value, t) ==
    IF Evicts(c) THEN EmptyCache ELSE c

\* An addToCache that makes room by dropping one entry, not all of them.
AddToCache_EvictsOne(c, key, value, t) ==
    LET victim == CHOOSE k \in DOMAIN c : TRUE
        kept == IF Evicts(c) THEN [k \in DOMAIN c \ {victim} |-> c[k]] ELSE c
    IN  CachePut(kept, key, value, this.cache_max_age, t)

\* An addToCache that never clears.
AddToCache_NeverClears(c, key, value, t) ==
    CachePut(c, key, value, this.cache_max_age, t)

AddToCache(c, key, value, t) ==
    LET cleared == IF Evicts(c) THEN EmptyCache ELSE c
    IN  IF CachePutThrows(this.cache_max_age) THEN cleared
        ELSE CachePut(cleared, key, value, this.cache_max_age, t)

\* The cache operations addToCache makes, in order; "put:throws" is a put
\* that threw 'Cache timeout must be a positive number', which rejects the
\* promise addToCache returned.
AddToCacheOps(c) ==
    <<"exportJson">> \o (IF Evicts(c) THEN <<"clear">> ELSE <<>>)
        \o (IF CachePutThrows(this.cache_max_age) THEN <<"put:throws">> ELSE <<"put">>)

(***************************************************************************)
(* Key derivation.                                                         *)
(***************************************************************************)
\* `${collection}:${id}`
DocKey(target) == Template(target.collection) \o ":" \o Template(target.id)

\* A key derivation that visits the filter's fields in one fixed order,
\* whatever order the caller wrote them in.
FilterSuffix_Sorted(entries) ==
    LET has(f) == \E i \in 1..Len(entries) : entries[i][1] = f
        val(f) == entries[CHOOSE i \in 1..Len(entries) : entries[i][1] = f][2]
        RECURSIVE join(_)
        join(fs) == IF Len(fs) = 0 THEN ""
                    ELSE "-" \o fs[1] \o ":" \o val(fs[1]) \o join(Tail(fs))
    IN  join(SelectSeq(FieldOrder, has))

RECURSIVE FilterSuffix(_)
FilterSuffix(entries) ==
    IF Len(entries) = 0 THEN ""
    ELSE "-" \o entries[1][1] \o ":" \o entries[1][2] \o FilterSuffix(Tail(entries))

\* `${collection}:${limit || 0}` followed by `-${key}:${filter[key]}` per filter key
QueryKey(target, filter) ==
    Template(target.collection) \o ":" \o LimitOrZero(target.limit)
        \o (IF filter.def THEN FilterSuffix(filter.entries) ELSE "")

(***************************************************************************)
(* The external store (Firestore).                                         *)
(***************************************************************************)
Ref(target) == <<Template(target.collection), Template(target.id)>>

\* docRef.update(partial): the fields the payload has replace the document's.
Merge(doc, partial) ==
    [f \in Fields |-> IF partial[f] # NoField THEN partial[f] ELSE doc[f]]

Matches(doc, entries) ==
    \A i \in 1..Len(entries) : doc[entries[i][1]] = entries[i][2]

RECURSIVE Take(_, _)
Take(s, n) ==
    IF n <= 0 \/ Len(s) = 0 THEN <<>> ELSE <<s[1]>> \o Take(Tail(s), n - 1)

\* query.where(key, '==', value)... .limit(n).get(), documents in id order
QueryDocuments(st, collection, filter, limit) ==
    LET ids == SelectSeq(IdOrder, LAMBDA i :
                   /\ st[<<collection, i>>] # Absent
                   /\ (filter.def => Matches(st[<<collection, i>>], filter.entries)))
        docs == [n \in 1..Len(ids) |-> st[<<collection, ids[n]>>]]
    IN  IF limit = Undefined THEN docs ELSE Take(docs, NumValue(limit))

\* Firestore rejects a negative limit.
QueryRejected(limit) == limit # Undefined /\ NumValue(limit) < 0

(***************************************************************************)
(* The record of a call.                                                   *)
(***************************************************************************)
\* The cache key a call works under.
KeyOf(op, target, filter) ==
    IF op = "readMany" THEN QueryKey(target, filter) ELSE DocKey(target)

\* found: what the call's cache lookup found ("none" when it made none).
\* follows: the call made just before this one, when that call succeeded
\* under the same cache key and no time has passed since.
NoPrior == [op |-> "none", storeCalls |-> <<>>]

Call(op, target, document, filter, outcome, result, storeCalls, cacheOps, found) ==
    [op |-> op, target |-> target, document |-> document, filter |-> filter,
     outcome |-> outcome, result |-> result,
     storeCalls |-> storeCalls, cacheOps |-> cacheOps, found |-> found,
     follows |-> IF /\ last.outcome = "ok"
                    /\ KeyOf(last.op, last.target, last.filter) = KeyOf(op, target, filter)
                 THEN [op |-> last.op, storeCalls |-> last.storeCalls]
                 ELSE NoPrior]

NoCall ==
    [op |-> "none", target |-> Target(Undefined, Undefined, Undefined),
     document |-> NotGiven, filter |-> NoFilter, outcome |-> "none", result |-> NoValue,
     storeCalls |-> <<>>, cacheOps |-> <<>>, found |-> "none", follows |-> NoPrior]

(***************************************************************************)
(* write(creator, document)                                                *)
(***************************************************************************)
\* A validation that only looks for missing values, not at their types.
InvalidWrite_OnlyUndefined(target, document) ==
    target.id = Undefined \/ target.collection = Undefined \/ ~document.def

InvalidWrite(target, document) ==
    \/ target.id = Undefined \/ target.collection = Undefined \/ ~document.def
    \/ TypeOf(target.id) # "string" \/ TypeOf(target.collection) # "string"

\* generateError before any I/O
WriteInvalid(target, document) ==
    /\ last' = Call("write", target, document, NoFilter, "ValidationError", NoValue,
                    <<>>, <<>>, "none")
    /\ UNCHANGED <<store, cache, now>>

\* `await docRef.set(document)` rejects
WriteStoreFails(target, document) ==
    /\ last' = Call("write", target, document, NoFilter, "StoreError", NoValue,
                    <<"set">>, <<>>, "none")
    /\ UNCHANGED <<store, cache, now>>

\* JSON.stringify(document)
WriteCacheValue(document) == JSONstringify(Obj(document.doc))

WriteOk(target, document) ==
    /\ store' = [store EXCEPT ![Ref(target)] = document.doc]
    /\ cache' = AddToCache(cache, DocKey(target), WriteCacheValue(document), now)
    /\ last' = Call("write", target, document, NoFilter, "ok", NoValue,
                    <<"set">>, AddToCacheOps(cache), "none")
    /\ UNCHANGED now

Write(target, document, fail) ==
    IF InvalidWrite(target, document) THEN WriteInvalid(target, document)
    ELSE IF fail THEN WriteStoreFails(target, document)
    ELSE WriteOk(target, document)

(***************************************************************************)
(* readOne(target)                                                         *)
(***************************************************************************)
InvalidReadOne(target) ==
    \/ target.id = Undefined \/ target.collection = Undefined
    \/ TypeOf(target.id) # "string" \/ TypeOf(target.collection) # "string"

ReadOneInvalid(target) ==
    /\ last' = Call("readOne", target, NotGiven, NoFilter, "ValidationError", NoValue,
                    <<>>, <<>>, "none")
    /\ UNCHANGED <<store, cache, now>>

\* `if (cached) return JSON.parse(cached)`
ReadOneHit(target) ==
    /\ last' = Call("readOne", target, NotGiven, NoFilter, "ok",
                    JSONparse(CacheGet(cache, DocKey(target), now)), <<>>, <<"get">>, "hit")
    /\ UNCHANGED <<store, cache, now>>

\* A readOne that asks the store a second time when its get() rejects.
ReadOneStoreFails_Retries(target) ==
    /\ cache' = CacheAfterGet(cache, DocKey(target), now)
    /\ last' = Call("readOne", target, NotGiven, NoFilter, "StoreError", NoValue,
                    <<"get", "get">>, <<"get">>, Found(cache, DocKey(target), now))
    /\ UNCHANGED <<store, now>>

\* the store's get() rejects
ReadOneStoreFails(target) ==
    /\ cache' = CacheAfterGet(cache, DocKey(target), now)
    /\ last' = Call("readOne", target, NotGiven, NoFilter, "StoreError", NoValue,
                    <<"get">>, <<"get">>, Found(cache, DocKey(target), now))
    /\ UNCHANGED <<store, now>>

\* A readOne that caches what the store returned before it looks at
\* document.exists.
ReadOneNotFound_CachesFirst(target) ==
    /\ cache' = AddToCache(CacheAfterGet(cache, DocKey(target), now), DocKey(target), Null, now)
    /\ last' = Call("readOne", target, NotGiven, NoFilter, "NotFoundError", NoValue,
                    <<"get">>, <<"get">>, Found(cache, DocKey(target), now))
    /\ UNCHANGED <<store, now>>

\* `if (!document.exists)`: 'No such document'
ReadOneNotFound(target) ==
    /\ cache' = CacheAfterGet(cache, DocKey(target), now)
    /\ last' = Call("readOne", target, NotGiven, NoFilter, "NotFoundError", NoValue,
                    <<"get">>, <<"get">>, Found(cache, DocKey(target), now))
    /\ UNCHANGED <<store, now>>

\* A miss that returns the store's document without caching it.
ReadOneMiss_NoPopulate(target) ==
    /\ cache' = CacheAfterGet(cache, DocKey(target), now)
    /\ last' = Call("readOne", target, NotGiven, NoFilter, "ok", Obj(store[Ref(target)]),
                    <<"get">>, <<"get">>, Found(cache, DocKey(target), now))
    /\ UNCHANGED <<store, now>>

ReadOneMiss(target) ==
    LET afterGet == CacheAfterGet(cache, DocKey(target), now)
        data == Obj(store[Ref(target)])
    IN  /\ cache' = AddToCache(afterGet, DocKey(target), JSONstringify(data), now)
        /\ last' = Call("readOne", target, NotGiven, NoFilter, "ok", data,
                        <<"get">>, <<"get">> \o AddToCacheOps(afterGet),
                        Found(cache, DocKey(target), now))
        /\ UNCHANGED <<store, now>>

ReadOne(target, fail) ==
    IF InvalidReadOne(target) THEN ReadOneInvalid(target)
    ELSE IF Truthy(CacheGet(cache, DocKey(target), now)) THEN ReadOneHit(target)
    ELSE IF fail THEN ReadOneStoreFails(target)
    ELSE IF store[Ref(target)] = Absent THEN ReadOneNotFound(target)
    ELSE ReadOneMiss(target)

(***************************************************************************)
(* readMany(target, filter)                                                *)
(***************************************************************************)
InvalidReadMany(target) ==
    \/ target.collection = Undefined
    \/ TypeOf(target.collection) # "string"
    \/ (target.limit # Undefined /\ TypeOf(target.limit) # "number")

ReadManyInvalid(target, filter) ==
    /\ last' = Call("readMany", target, NotGiven, filter, "ValidationError", NoValue,
                    <<>>, <<>>, "none")
    /\ UNCHANGED <<store, cache, now>>

\* `if (cached) return JSON.parse(cached)`
ReadManyHit(target, filter) ==
    /\ last' = Call("readMany", target, NotGiven, filter, "ok",
                    JSONparse(CacheGet(cache, QueryKey(target, filter), now)),
                    <<>>, <<"get">>, "hit")
    /\ UNCHANGED <<store, cache, now>>

\* `await query.get()` rejects
ReadManyStoreFails(target, filter) ==
    /\ cache' = CacheAfterGet(cache, QueryKey(target, filter), now)
    /\ last' = Call("readMany", target, NotGiven, filter, "StoreError", NoValue,
                    <<"query">>, <<"get">>, Found(cache, QueryKey(target, filter), now))
    /\ UNCHANGED <<store, now>>

\* `await this.addToCache(...)` rejects: readMany is the one handler that
\* awaits addToCache, so the rejection becomes its own.
ReadManyCacheFails(target, filter) ==
    LET afterGet == CacheAfterGet(cache, QueryKey(target, filter), now)
    IN  /\ cache' = AddToCache(afterGet, QueryKey(target, filter), Null, now)
        /\ last' = Call("readMany", target, NotGiven, filter, "CacheError", NoValue,
                        <<"query">>, <<"get">> \o AddToCacheOps(afterGet),
                        Found(cache, QueryKey(target, filter), now))
        /\ UNCHANGED <<store, now>>

ReadManyMiss(target, filter) ==
    LET afterGet == CacheAfterGet(cache, QueryKey(target, filter), now)
        data == Arr(QueryDocuments(store, Template(target.collection), filter, target.limit))
    IN  /\ cache' = AddToCache(afterGet, QueryKey(target, filter), JSONstringify(data), now)
        /\ last' = Call("readMany", target, NotGiven, filter, "ok", data,
                        <<"query">>, <<"get">> \o AddToCacheOps(afterGet),
                        Found(cache, QueryKey(target, filter), now))
        /\ UNCHANGED <<store, now>>

ReadMany(target, filter, fail) ==
    IF InvalidReadMany(target) THEN ReadManyInvalid(target, filter)
    ELSE IF Truthy(CacheGet(cache, QueryKey(target, filter), now))
         THEN ReadManyHit(target, filter)
    ELSE IF fail \/ QueryRejected(target.limit) THEN ReadManyStoreFails(target, filter)
    ELSE IF CachePutThrows(this.cache_max_age) THEN ReadManyCacheFails(target, filter)
    ELSE ReadManyMiss(target, filter)

(***************************************************************************)
(* updateOne(creator, document)                                            *)
(***************************************************************************)
UpdateOneInvalid(target, document) ==
    /\ last' = Call("updateOne", target, document, NoFilter, "ValidationError", NoValue,
                    <<>>, <<>>, "none")
    /\ UNCHANGED <<store, cache, now>>

\* `await docRef.update(document)` rejects (NOT_FOUND when there is no such
\* document)
UpdateOneUpdateFails(target, document) ==
    /\ last' = Call("updateOne", target, document, NoFilter, "StoreError", NoValue,
                    <<"update">>, <<>>, "none")
    /\ UNCHANGED <<store, cache, now>>

\* the update went through and the get() that follows it rejects
UpdateOneGetFails(target, document) ==
    /\ store' = [store EXCEPT ![Ref(target)] = Merge(@, document.doc)]
    /\ last' = Call("updateOne", target, document, NoFilter, "StoreError", NoValue,
                    <<"update", "get">>, <<>>, "none")
    /\ UNCHANGED <<cache, now>>

\* An update that caches the payload it was given, not the document it
\* fetched back.
UpdateCacheValue_Partial(updatedDoc, document) == JSONstringify(Obj(document.doc))

\* JSON.stringify(updatedDoc.data())
UpdateCacheValue(updatedDoc, document) == JSONstringify(Obj(updatedDoc))

UpdateOneOk(target, document) ==
    LET updatedDoc == Merge(store[Ref(target)], document.doc)
    IN  /\ store' = [store EXCEPT ![Ref(target)] = updatedDoc]
        /\ cache' = AddToCache(cache, DocKey(target),
                               UpdateCacheValue(updatedDoc, document), now)
        /\ last' = Call("updateOne", target, document, NoFilter, "ok", Obj(updatedDoc),
                        <<"update", "get">>, AddToCacheOps(cache), "none")
        /\ UNCHANGED now

UpdateOne(target, document, fail) ==
    IF InvalidWrite(target, document) THEN UpdateOneInvalid(target, document)
    ELSE IF fail = "update" \/ store[Ref(target)] = Absent
         THEN UpdateOneUpdateFails(target, document)
    ELSE IF fail = "get" THEN UpdateOneGetFails(target, document)
    ELSE UpdateOneOk(target, document)

(***************************************************************************)
(* Calls in flight.  Each handler is an async function: it runs on the     *)
(* stack until an `await`, where it leaves the stack until what it awaits  *)
(* has settled.  No call is in flight while the calls are made one at a    *)
(* time.                                                                   *)
(***************************************************************************)
CallIds == 1..MaxCalls

Idle ==
    [op |-> "none", pc |-> "idle", req |-> "none", target |-> Target(Undefined, Undefined, Undefined),
     document |-> Absent, data |-> NoValue, size |-> 0, found |-> "none", outcome |-> "none"]

NoCacheOp == [id |-> 0, op |-> "none"]

NoCallsInFlight ==
    /\ calls = [i \in CallIds |-> Idle]
    /\ running = 0
    /\ lastCacheOp = NoCacheOp

OneAtATime == UNCHANGED <<calls, running, lastCacheOp>>

(***************************************************************************)
(* Time passes; the timers that put set for the entries now due may fire   *)
(* and delete them.                                                        *)
(***************************************************************************)
Tick ==
    /\ now < MaxTime
    /\ now' = now + 1
    /\ \E fired \in SUBSET {k \in DOMAIN cache : cache[k].expire <= now + 1} :
           cache' = [k \in DOMAIN cache \ fired |-> cache[k]]
    /\ last' = NoCall
    /\ UNCHANGED store

Init ==
    /\ store = [r \in DocRefs |-> Absent]
    /\ cache = EmptyCache
    /\ now = 0
    /\ last = NoCall
    /\ this = Instance(1, cache_max_age, cache_allocated_memory)
    /\ NoCallsInFlight

\* The arguments the calls are made with: every valid combination, and
\* each way of being invalid.
WriteInputs ==
    {<<t, Given(d)>> : t \in ValidTargets, d \in PayloadDocs}
        \cup {<<t, Given(D1)>> : t \in InvalidTargets}
        \cup {<<t, NotGiven>> : t \in ValidTargets}
UpdateInputs ==
    {<<t, Given(U1)>> : t \in ValidTargets}
        \cup {<<t, Given(U1)>> : t \in InvalidTargets}
        \cup {<<t, NotGiven>> : t \in ValidTargets}
ReadManyInputs ==
    {<<t, f>> : t \in ValidQueryTargets, f \in FilterInputs}
        \cup {<<Target(Str(c), Undefined, Undefined), FilterGiven(<<>>)>> : c \in Collections}
        \cup {<<Target(Str(c), Undefined, l), NoFilter>> :
                  c \in Collections, l \in {Num("0"), Num("-1")}}
        \cup {<<t, NoFilter>> : t \in InvalidQueryTargets}

\* One instance makes every call.
DoWrite ==
    /\ \E in \in WriteInputs, fail \in BOOLEAN : Write(in[1], in[2], fail)
    /\ UNCHANGED this /\ OneAtATime
DoReadOne ==
    /\ \E target \in Targets, fail \in BOOLEAN : ReadOne(target, fail)
    /\ UNCHANGED this /\ OneAtATime
DoReadMany ==
    /\ \E in \in ReadManyInputs, fail \in BOOLEAN : ReadMany(in[1], in[2], fail)
    /\ UNCHANGED this /\ OneAtATime
DoUpdateOne ==
    /\ \E in \in UpdateInputs, fail \in {"none", "update", "get"} :
           UpdateOne(in[1], in[2], fail)
    /\ UNCHANGED this /\ OneAtATime
DoTick == Tick /\ UNCHANGED this /\ OneAtATime

Next == DoWrite \/ DoReadOne \/ DoReadMany \/ DoUpdateOne \/ DoTick

Spec == Init /\ [][Next]_vars

(***************************************************************************)
(* readMany with a filter of two fields, written in either order.          *)
(***************************************************************************)
OrderedFilters ==
    {FilterGiven(<<<<"status", "a">>, <<"title", "a">>>>),
     FilterGiven(<<<<"title", "a">>, <<"status", "a">>>>)}

DoReadManyOrdered ==
    /\ \E target \in ValidQueryTargets, filter \in OrderedFilters, fail \in BOOLEAN :
           ReadMany(target, filter, fail)
    /\ UNCHANGED this /\ OneAtATime

NextFilters == DoWrite \/ DoReadManyOrdered \/ DoTick

(***************************************************************************)
(* An instance constructed with cache_max_age: 0.  The constructor keeps   *)
(* the 0 (its default applies to undefined only) and every cache.put with  *)
(* it throws.                                                              *)
(***************************************************************************)
ZeroMaxAge == 0

InitZeroMaxAge ==
    /\ store = [r \in DocRefs |-> Absent]
    /\ cache = EmptyCache
    /\ now = 0
    /\ last = NoCall
    /\ this = Instance(1, ZeroMaxAge, cache_allocated_memory)
    /\ NoCallsInFlight

SpecZeroMaxAge == InitZeroMaxAge /\ [][Next]_vars

(***************************************************************************)
(* Two DatabaseModule instances in one process: each call is made through  *)
(* `this`, and the next call may come through either instance.             *)
(***************************************************************************)
Instances ==
    {Instance(i, cache_max_age, cache_allocated_memory) : i \in {1, 2}}

\* What cache.get(key) returns inside a call made through instance i: every
\* instance reads the one memory-cache object of the module.
LookupThrough(i, key) == CacheGet(cache, key, now)

WriteThroughAny ==
    /\ \E target \in ValidTargets, d \in PayloadDocs, fail \in BOOLEAN :
           Write(target, Given(d), fail)
    /\ this' \in Instances /\ OneAtATime
ReadOneThroughAny ==
    /\ \E target \in ValidTargets, fail \in BOOLEAN : ReadOne(target, fail)
    /\ this' \in Instances /\ OneAtATime
ReadManyThroughAny ==
    /\ \E target \in ValidQueryTargets, fail \in BOOLEAN : ReadMany(target, NoFilter, fail)
    /\ this' \in Instances /\ OneAtATime
UpdateOneThroughAny ==
    /\ \E target \in ValidTargets, fail \in {"none", "update", "get"} :
           UpdateOne(target, Given(U1), fail)
    /\ this' \in Instances /\ OneAtATime
TickThroughAny == Tick /\ this' \in Instances /\ OneAtATime

InitInstances ==
    /\ store = [r \in DocRefs |-> Absent]
    /\ cache = EmptyCache
    /\ now = 0
    /\ last = NoCall
    /\ this \in Instances
    /\ NoCallsInFlight

NextInstances ==
    \/ WriteThroughAny \/ ReadOneThroughAny \/ ReadManyThroughAny
    \/ UpdateOneThroughAny \/ TickThroughAny

SpecInstances == InitInstances /\ [][NextInstances]_vars

(***************************************************************************)
(* Overlapping calls.  A call is invoked while the loop is idle and runs   *)
(* to its first `await`; the store answers its request at any moment; its *)
(* continuation runs when the loop is idle again, up to the next `await`   *)
(* or the return.  addToCache is entered by a plain call (awaited or not,  *)
(* its body runs on the caller's stack) and is followed statement by       *)
(* statement: exportJson, the conditional clear, the put.                  *)
(***************************************************************************)
\* The one document and the one query the overlapping calls work on.
TheDoc == Target(Str("t"), Str("0"), Undefined)
TheQuery == Target(Str("t"), Undefined, Num("1"))

\* An addToCache with an await right after the size is taken.
AwaitInAddToCache_AfterMeasure(step) == step = "exportJson"

\* Whether addToCache leaves the stack after a statement of its body: it
\* has no await.
AwaitInAddToCache(step) == FALSE

\* The call's code is on the stack, or the loop is idle and may run it.
CanRun(i) == running = i \/ running = 0

StaysOnStack(i, step) == IF AwaitInAddToCache(step) THEN 0 ELSE i

StartCall(op, target, document, req, found) ==
    [Idle EXCEPT !.op = op, !.target = target, !.document = document,
                 !.pc = "store", !.req = req, !.found = found]

\* write(creator, document) up to `await docRef.set(document)`
InvokeWrite(i, document) ==
    /\ calls[i].pc = "idle" /\ running = 0
    /\ calls' = [calls EXCEPT ![i] = StartCall("write", TheDoc, document, "set", "none")]
    /\ UNCHANGED <<store, cache, now, last, this, running, lastCacheOp>>

\* updateOne(creator, document) up to `await docRef.update(document)`
InvokeUpdateOne(i, document) ==
    /\ calls[i].pc = "idle" /\ running = 0
    /\ calls' = [calls EXCEPT ![i] = StartCall("updateOne", TheDoc, document, "update", "none")]
    /\ UNCHANGED <<store, cache, now, last, this, running, lastCacheOp>>

\* readOne / readMany up to the return of a hit or the `await` of the
\* store's get
InvokeRead(i, op, target, req) ==
    LET key == KeyOf(op, target, NoFilter)
        cached == CacheGet(cache, key, now)
    IN  /\ calls[i].pc = "idle" /\ running = 0
        /\ cache' = CacheAfterGet(cache, key, now)
        /\ lastCacheOp' = [id |-> i, op |-> "get"]
        /\ calls' = [calls EXCEPT ![i] =
               IF Truthy(cached)
               THEN [StartCall(op, target, Absent, "none", "hit") EXCEPT
                        !.pc = "done", !.data = JSONparse(cached), !.outcome = "ok"]
               ELSE StartCall(op, target, Absent, req, Found(cache, key, now))]
        /\ UNCHANGED <<store, now, last, this, running>>

InvokeReadOne(i) == InvokeRead(i, "readOne", TheDoc, "get")
InvokeReadMany(i) == InvokeRead(i, "readMany", TheQuery, "query")

\* The store carries out the request a call is waiting for.
StoreResponds(i) ==
    LET c == calls[i]
        ref == Ref(c.target)
    IN  /\ c.pc = "store"
        /\ \/ /\ c.req = "set"
              /\ store' = [store EXCEPT ![ref] = c.document]
              /\ calls' = [calls EXCEPT ![i].pc = "ready"]
           \/ /\ c.req = "update" /\ store[ref] = Absent
              /\ calls' = [calls EXCEPT ![i].pc = "ready", ![i].outcome = "StoreError"]
              /\ UNCHANGED store
           \/ /\ c.req = "update" /\ store[ref] # Absent
              /\ store' = [store EXCEPT ![ref] = Merge(@, c.document)]
              /\ calls' = [calls EXCEPT ![i].pc = "ready"]
           \/ /\ c.req = "get"
              /\ calls' = [calls EXCEPT ![i].pc = "ready", ![i].data = Obj(store[ref])]
              /\ UNCHANGED store
           \/ /\ c.req = "query"
              /\ calls' = [calls EXCEPT ![i].pc = "ready",
                     ![i].data = Arr(QueryDocuments(store, Template(c.target.collection),
                                                    NoFilter, c.target.limit))]
              /\ UNCHANGED store
        /\ UNCHANGED <<cache, now, last, this, running, lastCacheOp>>

\* The continuation after an awaited store call that ends the call or
\* awaits again: the rejected update, `docRef.get()` after the update,
\* 'No such document'.
ResumeWithoutCaching(i) ==
    LET c == calls[i]
    IN  /\ c.pc = "ready" /\ running = 0
        /\ \/ /\ c.req = "update" /\ c.outcome = "StoreError"
              /\ calls' = [calls EXCEPT ![i].pc = "done"]
           \/ /\ c.req = "update" /\ c.outcome # "StoreError"
              /\ calls' = [calls EXCEPT ![i].pc = "store", ![i].req = "get"]
           \/ /\ c.op = "readOne" /\ c.data = Obj(Absent)
              /\ calls' = [calls EXCEPT ![i].pc = "done", ![i].outcome = "NotFoundError"]
        /\ UNCHANGED <<store, cache, now, last, this, running, lastCacheOp>>

\* The continuation that calls addToCache, up to
\* `const size = Buffer.byteLength(cache.exportJson())`
ResumeAndMeasure(i) ==
    LET c == calls[i]
    IN  /\ c.pc = "ready" /\ running = 0
        /\ c.req \in {"set", "get", "query"}
        /\ ~(c.op = "readOne" /\ c.data = Obj(Absent))
        /\ calls' = [calls EXCEPT ![i].pc = "clear", ![i].size = ExportJsonBytes(cache)]
        /\ running' = StaysOnStack(i, "exportJson")
        /\ lastCacheOp' = [id |-> i, op |-> "exportJson"]
        /\ UNCHANGED <<store, cache, now, last, this>>

\* `if (maxBytes < size) cache.clear()`
ClearIfOver(i) ==
    /\ calls[i].pc = "clear" /\ CanRun(i)
    /\ IF MaxBytes < calls[i].size
       THEN cache' = EmptyCache /\ lastCacheOp' = [id |-> i, op |-> "clear"]
       ELSE UNCHANGED <<cache, lastCacheOp>>
    /\ calls' = [calls EXCEPT ![i].pc = "put"]
    /\ running' = StaysOnStack(i, "clear")
    /\ UNCHANGED <<store, now, last, this>>

\* What the call caches.
ValueToCache(c) ==
    IF c.op = "write" THEN WriteCacheValue(Given(c.document))
    ELSE IF c.op = "updateOne" THEN UpdateCacheValue(c.data.o, Given(c.document))
    ELSE JSONstringify(c.data)

\* `cache.put(key, value, this.cache_max_age)` and the return that follows
\* it; readMany awaits the promise of addToCache first.
Put(i) ==
    LET c == calls[i]
    IN  /\ c.pc = "put" /\ CanRun(i)
        /\ cache' = IF CachePutThrows(this.cache_max_age) THEN cache
                    ELSE CachePut(cache, KeyOf(c.op, c.target, NoFilter), ValueToCache(c),
                                  this.cache_max_age, now)
        /\ lastCacheOp' = [id |-> i, op |-> "put"]
        /\ calls' = [calls EXCEPT ![i].pc = IF c.op = "readMany" THEN "awaited" ELSE "done",
                                  ![i].outcome = IF c.op = "readMany" THEN "none" ELSE "ok"]
        /\ running' = 0
        /\ UNCHANGED <<store, now, last, this>>

\* readMany's `return data` after `await this.addToCache(...)`
ReturnMany(i) ==
    /\ calls[i].pc = "awaited" /\ running = 0
    /\ calls' = [calls EXCEPT ![i].pc = "done", ![i].outcome = "ok"]
    /\ UNCHANGED <<store, cache, now, last, this, running, lastCacheOp>>

\* The cache after write(TheDoc, D1) and readMany(TheQuery) made one after
\* the other.
WarmCache ==
    AddToCache(AddToCache(EmptyCache, DocKey(TheDoc), JSONstringify(Obj(D1)), 0),
               QueryKey(TheQuery, NoFilter), JSONstringify(Arr(<<D1>>)), 0)

\* The store may hold the document before the process starts, and the
\* calls may begin to overlap after earlier calls have filled the cache.
InitOverlapping ==
    /\ this = Instance(1, cache_max_age, cache_allocated_memory)
    /\ store \in [DocRefs -> {Absent, D1}]
    /\ cache \in {EmptyCache} \cup (IF store[Ref(TheDoc)] = D1 THEN {WarmCache} ELSE {})
    /\ now = 0
    /\ last = NoCall
    /\ NoCallsInFlight

NextOverlapping ==
    \E i \in CallIds :
        \/ \E d \in PayloadDocs : InvokeWrite(i, d)
        \/ InvokeUpdateOne(i, U1)
        \/ InvokeReadOne(i)
        \/ InvokeReadMany(i)
        \/ StoreResponds(i)
        \/ ResumeWithoutCaching(i)
        \/ ResumeAndMeasure(i)
        \/ ClearIfOver(i)
        \/ Put(i)
        \/ ReturnMany(i)

SpecOverlapping == InitOverlapping /\ [][NextOverlapping]_vars

SpecFilters == Init /\ [][NextFilters]_vars

(***************************************************************************)
(* Properties.  A step with last'.op = op is a call of op: last' holds its *)
(* arguments and what it did, the unprimed variables the state it began    *)
(* in.                                                                     *)
(***************************************************************************)
ValidDescriptor(target) ==
    TypeOf(target.collection) = "string" /\ TypeOf(target.id) = "string"

\* An unexpired entry is held under key.
Unexpired(c, key, t) == key \in DOMAIN c /\ c[key].expire >= t

\* C1 (write-through): a readOne(d) made right after a successful
\* write(d, doc) succeeds, returns doc and makes no call to the store.
C1_WriteThrough ==
    [][ (/\ last.op = "write" /\ last.outcome = "ok"
         /\ last'.op = "readOne" /\ last'.target = last.target)
        => (/\ last'.outcome = "ok"
            /\ last'.result = Obj(last.document.doc)
            /\ last'.storeCalls = <<>>) ]_vars

C1_Witness ==
    /\ last.op = "readOne" /\ last.follows.op = "write"
    /\ last.outcome = "ok" /\ last.storeCalls = <<>>
    /\ last.result = Obj(D1)

\* C2 (read-through): a readOne(d) that finds an unexpired entry under the
\* key of d returns the parsed entry, calls the store not at all and leaves
\* the cache as it is; one that finds none calls get once and, when the
\* document exists, returns it and has put it under the key of d, stamped
\* with the full cache_max_age; the readOne(d) right after a successful
\* readOne(d) makes no store call and returns the same document.
C2_ReadThrough ==
    [][ /\ (last'.op = "readOne" /\ ValidDescriptor(last'.target)) =>
            LET key == DocKey(last'.target)
                doc == store[Ref(last'.target)]
            IN  IF Unexpired(cache, key, now)
                THEN /\ last'.outcome = "ok"
                     /\ last'.storeCalls = <<>>
                     /\ last'.result = JSONparse(cache[key].value)
                     /\ cache' = cache
                ELSE /\ last'.storeCalls = <<"get">>
                     /\ (last'.outcome = "ok") =>
                            /\ doc # Absent
                            /\ last'.result = Obj(doc)
                            /\ key \in DOMAIN cache'
                            /\ cache'[key] = [value |-> JSONstringify(Obj(doc)),
                                              expire |-> now + cache_max_age]
                     /\ (doc = Absent) => last'.outcome \in {"NotFoundError", "StoreError"}
        /\ (/\ last.op = "readOne" /\ last.outcome = "ok"
            /\ last'.op = "readOne" /\ last'.target = last.target)
           => (/\ last'.outcome = "ok"
               /\ last'.storeCalls = <<>>
               /\ last'.result = last.result) ]_vars

C2_Witness ==
    /\ last.op = "readOne" /\ last.outcome = "ok" /\ last.storeCalls = <<>>
    /\ last.follows = [op |-> "readOne", storeCalls |-> <<"get">>]
    /\ last.result.k = "object"

\* C3 (update refreshes): a successful updateOne(d, p) calls update and then
\* get on the store and never reads the cache; the document it returns is
\* the stored document with the fields of p replaced and every other field
\* kept, and that document is what it caches under the key of d; the
\* readOne(d) right after it returns that full document without a store
\* call.
C3_UpdateRefreshes ==
    [][ /\ (last'.op = "updateOne" /\ last'.outcome = "ok") =>
            LET key == DocKey(last'.target)
                full == [f \in Fields |->
                            IF last'.document.doc[f] # NoField
                            THEN last'.document.doc[f]
                            ELSE store[Ref(last'.target)][f]]
            IN  /\ last'.storeCalls = <<"update", "get">>
                /\ \A i \in 1..Len(last'.cacheOps) : last'.cacheOps[i] # "get"
                /\ store[Ref(last'.target)] # Absent
                /\ store'[Ref(last'.target)] = full
                /\ last'.result = Obj(full)
                /\ key \in DOMAIN cache'
                /\ cache'[key].value = JSONstringify(Obj(full))
        /\ (/\ last.op = "updateOne" /\ last.outcome = "ok"
            /\ last'.op = "readOne" /\ last'.target = last.target)
           => (/\ last'.outcome = "ok"
               /\ last'.storeCalls = <<>>
               /\ last'.result = last.result
               /\ last'.result = Obj(store[Ref(last.target)])) ]_vars

\* The update changed the title only; the readOne returns the status too.
C3_Witness ==
    /\ last.op = "readOne" /\ last.follows.op = "updateOne"
    /\ last.outcome = "ok" /\ last.storeCalls = <<>>
    /\ last.result = Obj([status |-> "a", title |-> "x"])

\* C4 (query hit): the readMany made right after a successful readMany with
\* the same collection, filters and limit makes no call to the store and
\* returns the same sequence, so the two together query the store at most
\* once (once when the first one missed).
C4_SecondReadManyHits ==
    [][ (/\ last.op = "readMany" /\ last.outcome = "ok"
         /\ last'.op = "readMany"
         /\ last'.target = last.target /\ last'.filter = last.filter)
        => (/\ last'.outcome = "ok"
            /\ last'.storeCalls = <<>>
            /\ last'.result = last.result
            /\ last.storeCalls \o last'.storeCalls \in {<<>>, <<"query">>}
            /\ (last.found # "hit" => last.storeCalls \o last'.storeCalls = <<"query">>)
            /\ cache' = cache) ]_vars

\* The first call missed and cached the empty sequence; the second hit it.
C4_Witness ==
    /\ last.op = "readMany" /\ last.outcome = "ok" /\ last.storeCalls = <<>>
    /\ last.follows = [op |-> "readMany", storeCalls |-> <<"query">>]
    /\ last.target.limit = Num("1") /\ last.filter = FilterGiven(<<<<"status", "a">>>>)
    /\ last.result = Arr(<<>>)

\* What C5 calls an invalid call: a value the operation requires is
\* undefined, or collection or id is not a string.
MissingOrMistyped(op, target, document) ==
    \/ target.collection = Undefined \/ TypeOf(target.collection) # "string"
    \/ op # "readMany" /\ (target.id = Undefined \/ TypeOf(target.id) # "string")
    \/ op \in {"write", "updateOne"} /\ ~document.def

\* C5 (validation first): a call of write, readOne, readMany or updateOne
\* that misses a required value, or whose collection or id is not a string,
\* fails with a ValidationError having called neither the store nor the
\* cache, and leaves both as they were.
C5_ValidationBeforeIO ==
    [][ (/\ last'.op \in {"write", "readOne", "readMany", "updateOne"}
         /\ MissingOrMistyped(last'.op, last'.target, last'.document))
        => (/\ last'.outcome = "ValidationError"
            /\ last'.storeCalls = <<>>
            /\ last'.cacheOps = <<>>
            /\ store' = store
            /\ cache' = cache) ]_vars

\* create({collection: 123, id: "0"}, doc)
C5_Witness ==
    /\ last.op = "write" /\ last.outcome = "ValidationError"
    /\ last.target.collection = Num("123") /\ last.target.id = Str("0")
    /\ last.document.def
    /\ last.storeCalls = <<>> /\ last.cacheOps = <<>>

PositiveNumber(x) == TypeOf(x) = "number" /\ NumValue(x) > 0

\* C6 (limit must be positive): a readMany whose limit is given and is not
\* a positive number fails with a ValidationError, having called neither
\* the cache nor the store.
C6_LimitMustBePositive ==
    [][ (/\ last'.op = "readMany"
         /\ last'.target.limit # Undefined
         /\ ~PositiveNumber(last'.target.limit))
        => (/\ last'.outcome = "ValidationError"
            /\ last'.storeCalls = <<>>
            /\ last'.cacheOps = <<>>) ]_vars

\* The entries a lookup can still return.
Live(c, t) == [k \in {x \in DOMAIN c : c[x].expire >= t} |-> c[k]]

Has(ops, name) == \E i \in 1..Len(ops) : ops[i] = name

\* C7 (failures do not populate): a call that fails (ValidationError,
\* NotFoundError or StoreError) puts nothing and clears nothing: no entry is
\* added or changed, and every entry a lookup could return before the call
\* is still there unchanged after it.
C7_FailuresDoNotPopulate ==
    [][ (last'.outcome \in {"ValidationError", "NotFoundError", "StoreError"})
        => (/\ ~Has(last'.cacheOps, "put") /\ ~Has(last'.cacheOps, "clear")
            /\ \A k \in DOMAIN cache' : k \in DOMAIN cache /\ cache'[k] = cache[k]
            /\ Live(cache', now') = Live(cache, now)) ]_vars

\* readOne of a document the store does not have, with entries in the cache.
C7_Witness ==
    /\ last.op = "readOne" /\ last.outcome = "NotFoundError"
    /\ last.storeCalls = <<"get">>
    /\ DOMAIN cache # {}
    /\ DocKey(last.target) \notin DOMAIN cache

\* C8 (TTL expiry): a put stamps its entry with now + cache_max_age; an
\* entry whose expiry the clock has not reached stays as it is through
\* every step that neither clears the cache nor puts under its key; a read
\* under a key that holds an entry not yet expired returns that entry's
\* value without a store call; a read that makes no store call returned an
\* entry whose expire is not behind the clock; and a read under a key whose
\* entry has expired goes to the store, cleared or not.
C8_TtlExpiry ==
    [][ LET key == KeyOf(last'.op, last'.target, last'.filter)
            isRead == last'.op \in {"readOne", "readMany"}
                          /\ last'.outcome # "ValidationError"
        IN  /\ Has(last'.cacheOps, "put") =>
                   /\ key \in DOMAIN cache'
                   /\ cache'[key].expire = now + cache_max_age
            /\ \A k \in DOMAIN cache :
                   (/\ cache[k].expire > now'
                    /\ ~Has(last'.cacheOps, "clear")
                    /\ ~(Has(last'.cacheOps, "put") /\ k = key))
                   => (k \in DOMAIN cache' /\ cache'[k] = cache[k])
            /\ (isRead /\ key \in DOMAIN cache /\ cache[key].expire >= now) =>
                   /\ last'.outcome = "ok" /\ last'.storeCalls = <<>>
                   /\ last'.result = JSONparse(cache[key].value)
            /\ (isRead /\ last'.storeCalls = <<>>) =>
                   /\ key \in DOMAIN cache /\ cache[key].expire >= now
            /\ (isRead /\ key \in DOMAIN cache /\ cache[key].expire < now) =>
                   /\ last'.storeCalls # <<>>
                   /\ last'.found = "expired" ]_vars

\* An entry that was never cleared had expired; the readOne went to the store.
C8_Witness ==
    /\ last.op = "readOne" /\ last.found = "expired"
    /\ last.outcome = "ok" /\ last.storeCalls = <<"get">>

\* What a successful call puts under its key.
CachedValueOf(call) ==
    IF call.op = "write" THEN JSONstringify(Obj(call.document.doc))
    ELSE JSONstringify(call.result)

\* The cache as addToCache measures it: after the call's own lookup.
Measured(call, key) ==
    IF call.found = "expired" THEN [k \in DOMAIN cache \ {key} |-> cache[k]] ELSE cache

\* C9 as the specification words it: whenever the cache with the new entry
\* inserted would be above the byte budget, the cache is cleared before the
\* insert, and the new entry is retrievable right after.
C9_ClearsWhenInsertWouldExceed ==
    [][ Has(last'.cacheOps, "put") =>
            LET key == KeyOf(last'.op, last'.target, last'.filter)
                inserted == CachePut(Measured(last', key), key, CachedValueOf(last'),
                                     cache_max_age, now)
            IN  /\ (ExportJsonBytes(inserted) > MaxBytes) =>
                       (Has(last'.cacheOps, "clear") /\ DOMAIN cache' = {key})
                /\ Unexpired(cache', key, now')
                /\ cache'[key].value = CachedValueOf(last') ]_vars

\* C9 (byte budget, amended): whenever the cache as measured before the
\* insert is above the byte budget, the cache is cleared before the insert
\* (the new entry is then its only entry), and in every case the new entry
\* is retrievable right after.
C9_ClearsWhenAlreadyOver ==
    [][ Has(last'.cacheOps, "put") =>
            LET key == KeyOf(last'.op, last'.target, last'.filter)
            IN  /\ (ExportJsonBytes(Measured(last', key)) > MaxBytes) =>
                       (Has(last'.cacheOps, "clear") /\ DOMAIN cache' = {key})
                /\ Unexpired(cache', key, now')
                /\ cache'[key].value = CachedValueOf(last') ]_vars

\* A put that cleared: the new entry alone is in the cache.
C9_Witness ==
    /\ last.outcome = "ok" /\ Has(last.cacheOps, "clear") /\ Has(last.cacheOps, "put")
    /\ DOMAIN cache = {KeyOf(last.op, last.target, last.filter)}
    /\ Unexpired(cache, KeyOf(last.op, last.target, last.filter), now)

\* A query descriptor as the specification has it: the limit is left out
\* or is a positive number.
ValidQuery(target) ==
    /\ TypeOf(target.collection) = "string"
    /\ (target.limit = Undefined \/ PositiveNumber(target.limit))

DocOps == {"write", "readOne", "updateOne"}

\* C10 (keys are injective): of two calls made one after the other with
\* valid descriptors, the first of them successful, two single-document calls for different (collection,
\* id) pairs work under different keys, two readMany that differ in
\* collection, limit or filter list work under different keys, and a
\* single-document call and a readMany always work under different keys;
\* so a readOne returns one document and a readMany a sequence.
C10_KeysInjective ==
    [][ LET key == KeyOf(last.op, last.target, last.filter)
            key2 == KeyOf(last'.op, last'.target, last'.filter)
            doc1 == last.op \in DocOps /\ last.outcome = "ok"
            doc2 == last'.op \in DocOps /\ ValidDescriptor(last'.target)
            query1 == last.op = "readMany" /\ last.outcome = "ok" /\ ValidQuery(last.target)
            query2 == last'.op = "readMany" /\ ValidQuery(last'.target)
        IN  /\ (doc1 /\ doc2 /\ Ref(last.target) # Ref(last'.target)) => key # key2
            /\ (/\ query1 /\ query2
                /\ \/ last.target.collection # last'.target.collection
                   \/ last.target.limit # last'.target.limit
                   \/ last.filter.entries # last'.filter.entries) => key # key2
            /\ ((doc1 /\ query2) \/ (query1 /\ doc2)) => key # key2
            /\ (doc2 /\ last'.op = "readOne" /\ last'.outcome = "ok")
                   => last'.result.k = "object"
            /\ (query2 /\ last'.outcome = "ok") => last'.result.k = "array" ]_vars

(***************************************************************************)
(* C11 (filter order): two readMany calls in a row on the same collection  *)
(* and limit, with the same two or more filter fields.  Written in the     *)
(* same order, both derive one key and the second is served from the       *)
(* first's entry.  Written in different orders, they derive different      *)
(* keys: the second is not served from the first's entry, and where its    *)
(* own key holds nothing it misses and queries the store again.            *)
(***************************************************************************)
SameFilterSet(f, g) ==
    /\ f.def /\ g.def
    /\ Len(f.entries) = Len(g.entries)
    /\ {f.entries[i] : i \in 1..Len(f.entries)} = {g.entries[i] : i \in 1..Len(g.entries)}

C11_FilterOrderSensitive ==
    [][ (/\ last.op = "readMany" /\ last.outcome = "ok"
         /\ last'.op = "readMany" /\ last'.target = last.target
         /\ SameFilterSet(last.filter, last'.filter)
         /\ Len(last.filter.entries) >= 2)
        => IF last'.filter.entries = last.filter.entries
           THEN /\ QueryKey(last'.target, last'.filter) = QueryKey(last.target, last.filter)
                /\ last'.found = "hit"
                /\ last'.storeCalls = <<>>
           ELSE /\ QueryKey(last'.target, last'.filter) # QueryKey(last.target, last.filter)
                /\ last'.follows = NoPrior
                /\ ~Unexpired(cache, QueryKey(last'.target, last'.filter), now)
                       => (/\ last'.found # "hit"
                           /\ last'.storeCalls = <<"query">>) ]_vars

\* A readMany has just missed and queried the store while the entry of the
\* same filter written in the other order was live in the cache.
C11_Witness ==
    /\ last.op = "readMany" /\ last.outcome = "ok"
    /\ last.storeCalls = <<"query">>
    /\ last.filter \in OrderedFilters
    /\ \E g \in OrderedFilters \ {last.filter} :
           Unexpired(cache, QueryKey(last.target, g), now)

(***************************************************************************)
(* C12 (one cache per instance): a call made through one instance leaves   *)
(* what a cache lookup through every other instance returns, for every     *)
(* key, as it was.                                                         *)
(***************************************************************************)
C12_InstancesOwnTheirCache ==
    [][ last'.op # "none"
        => \A i \in Instances :
               i.id # this.id
               => \A key \in DOMAIN cache \cup DOMAIN cache' :
                      LookupThrough(i, key)' = LookupThrough(i, key) ]_vars

(***************************************************************************)
(* C13 (no swallowed error): a call in which a step failed, the put of     *)
(* the cache population step included, does not report success.            *)
(***************************************************************************)
C13_NoSwallowedFailure ==
    last.outcome = "ok" => ~Has(last.cacheOps, "put:throws")

(***************************************************************************)
(* C14 (queries reflect writes): the readMany right after a successful     *)
(* write or updateOne, on the same collection, with a valid limit and      *)
(* filters the written document matches, returns what the store now holds  *)
(* for that query.  (Queries whose key is the written document's own key   *)
(* are left to C10.)                                                       *)
(***************************************************************************)
C14_QueriesReflectWrites ==
    [][ (/\ last.op \in {"write", "updateOne"} /\ last.outcome = "ok"
         /\ last'.op = "readMany" /\ last'.outcome = "ok"
         /\ ~InvalidReadMany(last'.target)
         /\ (last'.target.limit = Undefined \/ NumValue(last'.target.limit) > 0)
         /\ Template(last'.target.collection) = Template(last.target.collection)
         /\ last'.filter.def => Matches(store[Ref(last.target)], last'.filter.entries)
         /\ QueryKey(last'.target, last'.filter) # DocKey(last.target))
        => last'.result = Arr(QueryDocuments(store, Template(last'.target.collection),
                                             last'.filter, last'.target.limit)) ]_vars

(***************************************************************************)
(* C15 (measure before, act conditionally): a put measures the cache as it *)
(* is before the insert and clears it if and only if that size is strictly *)
(* greater than the budget in bytes.  When it clears, the new entry is the *)
(* only entry afterwards; when it does not, every other entry stays as it  *)
(* was, whatever the size after the insert; either way the new entry is    *)
(* inserted.                                                               *)
(***************************************************************************)
C15_MeasureBeforeInsert ==
    [][ Has(last'.cacheOps, "put") =>
            LET key == KeyOf(last'.op, last'.target, last'.filter)
                measured == Measured(last', key)
                over == ExportJsonBytes(measured) > MaxBytes
            IN  /\ Has(last'.cacheOps, "clear") <=> over
                /\ over => DOMAIN cache' = {key}
                /\ ~over => \A k \in DOMAIN measured \ {key} :
                                k \in DOMAIN cache' /\ cache'[k] = measured[k]
                /\ key \in DOMAIN cache'
                /\ cache'[key] = [value |-> CachedValueOf(last'),
                                  expire |-> now + this.cache_max_age] ]_vars

\* A put that cleared nothing has left the cache above the budget.
C15_Witness ==
    /\ Has(last.cacheOps, "put") /\ ~Has(last.cacheOps, "clear")
    /\ Cardinality(DOMAIN cache) >= 2
    /\ ExportJsonBytes(cache) > MaxBytes

(***************************************************************************)
(* C16 (a put is atomic): while a call stands between the size measurement *)
(* of its addToCache and its put, its code is on the stack, the latest     *)
(* operation on the cache is its own (its exportJson or its clear), what   *)
(* it measured is still the size of the cache unless it has cleared it,    *)
(* and no other call stands between its own measurement and put.           *)
(***************************************************************************)
InsideAddToCache(i) == calls[i].pc \in {"clear", "put"}

C16_PutIsAtomic ==
    \A i \in CallIds :
        InsideAddToCache(i)
        => /\ running = i
           /\ lastCacheOp.id = i
           /\ lastCacheOp.op \in {"exportJson", "clear"}
           /\ calls[i].size = ExportJsonBytes(cache) \/ lastCacheOp.op = "clear"
           /\ \A j \in CallIds \ {i} : ~InsideAddToCache(j)

\* A call is about to put, having cleared the cache, while another call is
\* in flight.
C16_Witness ==
    \E i \in CallIds :
        /\ calls[i].pc = "put" /\ lastCacheOp = [id |-> i, op |-> "clear"]
        /\ \E j \in CallIds \ {i} : calls[j].pc \in {"store", "ready"}

(***************************************************************************)
(* C17 (readOne against a concurrent write): once a readOne that missed    *)
(* and a write or updateOne on the same descriptor have both completed,    *)
(* no other call having been made, the live cache entry under the          *)
(* document's key is the document the store holds.                         *)
(***************************************************************************)
C17_ReadOneNeverCachesOlder ==
    \A i \in CallIds, j \in CallIds :
        (/\ calls[i].op = "readOne" /\ calls[i].pc = "done"
         /\ calls[i].found = "absent" /\ calls[i].outcome = "ok"
         /\ calls[j].op \in {"write", "updateOne"} /\ calls[j].pc = "done"
         /\ calls[j].outcome = "ok"
         /\ \A k \in CallIds \ {i, j} : calls[k].pc = "idle"
         /\ Unexpired(cache, DocKey(TheDoc), now))
        => JSONparse(cache[DocKey(TheDoc)].value) = Obj(store[Ref(TheDoc)])

(***************************************************************************)
(* C18 (frame of cache writes): a call that puts creates or overwrites the *)
(* entry under its own key; every other entry is left as it was, or, when  *)
(* the put cleared, is gone.  A call that does not put (a hit, a failure)  *)
(* creates and changes no entry, and a hit leaves the cache as it was.  In *)
(* every step an entry disappears only by a clear or because it expired.   *)
(***************************************************************************)
C18_FrameOfCacheWrites ==
    [][ LET key == KeyOf(last'.op, last'.target, last'.filter)
            put == Has(last'.cacheOps, "put")
            clear == Has(last'.cacheOps, "clear")
        IN  /\ put => /\ last'.outcome = "ok"
                      /\ key \in DOMAIN cache'
                      /\ \A k \in (DOMAIN cache \cup DOMAIN cache') \ {key} :
                             IF clear THEN k \notin DOMAIN cache'
                             ELSE k \in DOMAIN cache /\ k \in DOMAIN cache'
                                  /\ cache'[k] = cache[k]
            /\ ~put => \A k \in DOMAIN cache' : k \in DOMAIN cache /\ cache'[k] = cache[k]
            /\ (last'.op # "none" /\ last'.outcome = "ok") => (put \/ last'.found = "hit")
            /\ last'.found = "hit" => cache' = cache
            /\ \A k \in DOMAIN cache \ DOMAIN cache' :
                   \/ clear
                   \/ IF last'.op = "none" THEN cache[k].expire <= now'
                      ELSE cache[k].expire < now ]_vars

\* A put has left an older entry, under another key, as it was.
C18_Witness ==
    /\ last.outcome = "ok" /\ Has(last.cacheOps, "put") /\ ~Has(last.cacheOps, "clear")
    /\ \E k \in DOMAIN cache :
           /\ k # KeyOf(last.op, last.target, last.filter)
           /\ cache[k].expire < cache[KeyOf(last.op, last.target, last.filter)].expire

(***************************************************************************)
(* C19 (no retries): a write that passed validation calls set exactly      *)
(* once; a readOne or readMany calls the store not at all on a hit and     *)
(* exactly once (get, query) on a miss; an updateOne that passed           *)
(* validation calls update exactly once and then get at most once, and     *)
(* exactly once when it succeeds; a call the store failed made no call     *)
(* after the failing one.  What a readMany miss returns is what the store  *)
(* holds for all the filter's equalities, cut to the limit only when a     *)
(* limit is given.                                                         *)
(***************************************************************************)
Missed(call) == call.found \in {"absent", "expired"}

C19_NoRetries ==
    /\ last.op = "write"
           => last.storeCalls = IF last.outcome = "ValidationError" THEN <<>> ELSE <<"set">>
    /\ last.op = "readOne"
           => /\ last.found = "hit" => last.storeCalls = <<>>
              /\ Missed(last) => last.storeCalls = <<"get">>
              /\ last.outcome = "ValidationError" => last.storeCalls = <<>>
    /\ last.op = "readMany"
           => /\ last.found = "hit" => last.storeCalls = <<>>
              /\ Missed(last) => last.storeCalls = <<"query">>
              /\ last.outcome = "ValidationError" => last.storeCalls = <<>>
              /\ (Missed(last) /\ last.outcome = "ok")
                     => LET all == QueryDocuments(store, Template(last.target.collection),
                                                  last.filter, Undefined)
                            n == IF last.target.limit = Undefined THEN Len(all)
                                 ELSE NumValue(last.target.limit)
                        IN  /\ \A i \in 1..Len(all) :
                                   last.filter.def => Matches(all[i], last.filter.entries)
                            /\ last.result = Arr(SubSeq(all, 1, IF n < Len(all) THEN n ELSE Len(all)))
    /\ last.op = "updateOne"
           => /\ last.outcome = "ValidationError" => last.storeCalls = <<>>
              /\ last.outcome = "ok" => last.storeCalls = <<"update", "get">>
              /\ last.outcome = "StoreError"
                     => last.storeCalls \in {<<"update">>, <<"update", "get">>}
    /\ last.outcome = "StoreError"
           => \A i \in 1..Len(last.storeCalls), j \in 1..Len(last.storeCalls) :
                  last.storeCalls[i] = last.storeCalls[j] => i = j

\* A readOne missed, its one get was rejected, and the call ended there.
C19_Witness ==
    /\ last.op = "readOne" /\ Missed(last)
    /\ last.outcome = "StoreError" /\ last.storeCalls = <<"get">>

(***************************************************************************)
(* C20 (bounded overshoot): a put leaves the cache no larger than the      *)
(* budget plus the serialized size of the entry it inserted, a put that    *)
(* found the cache above the budget leaves that entry alone in it, and no  *)
(* other step makes the cache larger; so the cache is never above the      *)
(* budget by more than the entry inserted last.                            *)
(***************************************************************************)
\* The serialized size of one entry: the export of a cache holding it alone.
EntryBytes(c, key) == ExportJsonBytes([k \in {key} |-> c[k]])

C20_BoundedOvershoot ==
    [][ LET key == KeyOf(last'.op, last'.target, last'.filter)
        IN  IF Has(last'.cacheOps, "put")
            THEN /\ ExportJsonBytes(cache') <= MaxBytes + EntryBytes(cache', key)
                 /\ ExportJsonBytes(Measured(last', key)) > MaxBytes
                        => ExportJsonBytes(cache') = EntryBytes(cache', key)
            ELSE ExportJsonBytes(cache') <= ExportJsonBytes(cache) ]_vars

\* The put just made has taken the cache above the budget, by less than
\* the entry it inserted.
C20_Witness ==
    /\ Has(last.cacheOps, "put")
    /\ ExportJsonBytes(cache) > MaxBytes
    /\ ExportJsonBytes(cache)
           < MaxBytes + EntryBytes(cache, KeyOf(last.op, last.target, last.filter))

====
